---------------------------- MODULE Spec2Model ----------------------------
(***************************************************************************)
(* A model of the record-management API: the file-backed document store    *)
(* (lib/data.js), the helpers (lib/helpers.js), the request handlers for   *)
(* users, tokens and checks (lib/handlers.js) and the routing (index.js).  *)
(*                                                                         *)
(* The file system is modelled at the level the code uses it: a directory  *)
(* maps a path to an inode, an inode holds the bytes of a file, and a file *)
(* descriptor names an inode (not a path).  Every fs call of the code is   *)
(* one atomic step; the synchronous code that follows the completion of a  *)
(* call is a separate step (the promise continuation).  Disk faults (a     *)
(* failing write, ftruncate or close on an open descriptor) are not        *)
(* modelled: an fs call fails only because of the presence or absence of   *)
(* the file it names.                                                      *)
(***************************************************************************)
EXTENDS Integers, Sequences, FiniteSets, TLC

VARIABLES dirents,   \* the directory: path -> inode, for the paths that exist
          inodes,    \* inode -> contents of the file, for the live inodes
          now,       \* Date.now()
          proc,      \* the requests in flight, one per slot
          started,   \* number of requests accepted so far
          hist,      \* history: what the store was last told to hold
          resp       \* the request answered last, with its response

vars == <<dirents, inodes, now, proc, started, hist, resp>>

(***************************************************************************)
(* Bounds of the model.                                                    *)
(***************************************************************************)
NProcs == 2          \* requests (or store calls) that may be in flight at once
MaxRequests == 2     \* requests accepted in one behaviour
MaxCalls == 3        \* store calls made in one behaviour of the store alone
MaxSeqCalls == 5     \* store calls made in one behaviour, one caller at a time
MaxTicks == 3        \* clock advances in one behaviour
Epoch == 1000000000  \* the clock at start; its decimal width stays constant

TTL == 3600000       \* 60 * 60 * 1000: the life of a token, in milliseconds
maxChecks == 5       \* config.maxChecks

Procs == 1..NProcs

(***************************************************************************)
(* JavaScript values.  An object is a function from its keys to values;    *)
(* {} is the empty function.  In a position that holds "a string or        *)
(* false/undefined" the empty string stands for false and undefined: the   *)
(* code only ever tests such a value for truthiness, and no non-empty      *)
(* result is confused with it.                                             *)
(***************************************************************************)
EmptyObj == << >>

Has(obj, k) == k \in DOMAIN obj

Put(obj, k, v) == [x \in DOMAIN obj \cup {k} |-> IF x = k THEN v ELSE obj[x]]

Without(obj, k) == [x \in DOMAIN obj \ {k} |-> obj[x]]

\* The order in which the code inserts the keys of the objects it builds.
KeyOrder == <<"firstName", "lastName", "phone", "hashedPassword",
              "tosAgreement", "checks", "id", "expires", "userPhone",
              "protocol", "url", "method", "successCodes", "timeoutSeconds">>

Quote(s) == "\"" \o s \o "\""

RECURSIVE JoinQuoted(_)
JoinQuoted(list) ==
    IF list = << >> THEN ""
    ELSE Quote(Head(list)) \o (IF Len(list) > 1 THEN "," ELSE "")
                          \o JoinQuoted(Tail(list))

RECURSIVE JoinNumbers(_)
JoinNumbers(list) ==
    IF list = << >> THEN ""
    ELSE ToString(Head(list)) \o (IF Len(list) > 1 THEN "," ELSE "")
                              \o JoinNumbers(Tail(list))

ValueText(k, v) ==
    CASE k = "expires" -> ToString(v)
      [] k = "timeoutSeconds" -> ToString(v)
      [] k = "successCodes" -> "[" \o JoinNumbers(v) \o "]"
      [] k = "tosAgreement" -> (IF v THEN "true" ELSE "false")
      [] k = "checks" -> "[" \o JoinQuoted(v) \o "]"
      [] k = "hashedPassword" -> (IF v = "" THEN "false" ELSE Quote(v))
      [] OTHER -> Quote(v)

RECURSIVE MemberTexts(_, _)
MemberTexts(obj, i) ==
    IF i > Len(KeyOrder) THEN << >>
    ELSE (IF Has(obj, KeyOrder[i])
          THEN <<Quote(KeyOrder[i]) \o ":" \o ValueText(KeyOrder[i], obj[KeyOrder[i]])>>
          ELSE << >>) \o MemberTexts(obj, i + 1)

RECURSIVE JoinComma(_)
JoinComma(list) ==
    IF list = << >> THEN ""
    ELSE Head(list) \o (IF Len(list) > 1 THEN "," ELSE "") \o JoinComma(Tail(list))

\* JSON.stringify of an object: its members in insertion order, no spaces.
JSON_stringify(obj) == "{" \o JoinComma(MemberTexts(obj, 1)) \o "}"

(***************************************************************************)
(* File contents.  Every write of the code puts one whole JSON text at     *)
(* offset 0 of a descriptor it has just opened, so the bytes of a file are *)
(* always: nothing, or the text last written followed by what is left of   *)
(* earlier bytes beyond its end.  The contents keep that decomposition:    *)
(* obj is <<the object last written>> or <<>>, junk the bytes after its    *)
(* text.                                                                   *)
(***************************************************************************)
EmptyFile == [obj |-> << >>, junk |-> ""]

FileText(c) == IF c.obj = << >> THEN "" ELSE JSON_stringify(c.obj[1]) \o c.junk

Drop(s, n) == IF n >= Len(s) THEN "" ELSE SubSeq(s, n + 1, Len(s))

\* write(2) of the text of `data` at offset 0 over contents c.
WriteAtStart(c, data) ==
    [obj |-> <<data>>, junk |-> Drop(FileText(c), Len(JSON_stringify(data)))]

\* ftruncate(fd) with the default length 0.
Ftruncate(c) == EmptyFile

\* JSON.parse accepts a complete JSON text with nothing after it, and throws
\* on the empty string and on a text followed by further bytes.
JSON_parses(c) == c.obj # << >> /\ c.junk = ""

parseJsonStrToObject(c) == IF JSON_parses(c) THEN c.obj[1] ELSE EmptyObj

(***************************************************************************)
(* lib/helpers.js and lib/validators.js.                                   *)
(***************************************************************************)
RECURSIVE trimStart(_)
trimStart(str) ==
    IF Len(str) > 0 /\ SubSeq(str, 1, 1) = " " THEN trimStart(Drop(str, 1)) ELSE str

RECURSIVE trimEnd(_)
trimEnd(str) ==
    IF Len(str) > 0 /\ SubSeq(str, Len(str), Len(str)) = " "
    THEN trimEnd(SubSeq(str, 1, Len(str) - 1)) ELSE str

trim(str) == trimEnd(trimStart(str))

\* The trimmed string, or false (here "") when it is absent or blank.
stringOrFalse(str) == IF Len(trim(str)) > 0 THEN trim(str) ELSE ""

\* false is "" for a string and 0 for a number.
protocolOrFalse(str) == IF str \in {"https", "http"} THEN str ELSE ""

methodOrFalse(str) == IF str \in {"post", "get", "delete", "put"} THEN str ELSE ""

timeoutSecondsOrFalse(int) == IF int >= 1 /\ int <= maxChecks THEN int ELSE 0

\* The keyed digest of str, or false (here ""): distinct inputs give distinct
\* digests, and inputs of one length digests of one length.
hash(str) == IF stringOrFalse(str) = "" THEN "" ELSE "hmac(" \o str \o ")"

Digits == {"0", "1", "2", "3", "4", "5", "6", "7", "8", "9"}

\* validators.phone: a string of digits, at most fifteen of them, surrounding
\* blanks aside.
validators_phone(phone) ==
    /\ Len(trim(phone)) \in 1..15
    /\ \A i \in 1..Len(trim(phone)) : SubSeq(trim(phone), i, i) \in Digits

\* The strings createRandomString(length) may return, two of them here.
RECURSIVE Repeat(_, _)
Repeat(char, length) == IF length <= 0 THEN "" ELSE char \o Repeat(char, length - 1)

createRandomString(length) == {Repeat(char, length) : char \in {"a", "b"}}

baseDir == ".data/"

getFileName(dir, file) == baseDir \o dir \o "/" \o file \o ".json"

checkIfExists(dir, file) == getFileName(dir, file) \in DOMAIN dirents

(***************************************************************************)
(* A store call in progress: the promise of lib.create / read / update /   *)
(* delete.  stage is the fs call it waits for, or how it settled.          *)
(***************************************************************************)
NoCall == [fn |-> "none", path |-> "", data |-> EmptyObj, stage |-> "none",
           fd |-> 0, out |-> EmptyObj]

NewCall(fn, dir, file, data) ==
    [fn |-> fn, path |-> getFileName(dir, file), data |-> data,
     stage |-> CASE fn = "create" -> "open"
                 [] fn = "update" -> "open"
                 [] fn = "read" -> "readFile"
                 [] fn = "delete" -> "unlink",
     fd |-> 0, out |-> EmptyObj]

Settled(c) == c.stage \in {"resolved", "rejected"}

NoInput == [phone |-> "", firstName |-> "", lastName |-> "", password |-> "",
            tosAgreement |-> FALSE, token |-> "", id |-> "", extend |-> FALSE,
            protocol |-> "", url |-> "", method |-> "", successCodes |-> << >>,
            timeoutSeconds |-> 0, trimmedPath |-> "", reqMethod |-> ""]

NoResponse == [statusCode |-> 0, payload |-> EmptyObj]

\* What the first fs call of a store call found at its path (kept for the
\* statement of properties; the code does not read it).
\* stored is the record the last completed create or update put at the path,
\* <<>> after a completed delete; unlinks counts the completed deletes.
Stored(path) == IF path \in DOMAIN hist.stored THEN <<hist.stored[path]>> ELSE << >>

Snapshot(path) ==
    IF path \in DOMAIN dirents
    THEN <<[exists |-> TRUE, whole |-> JSON_parses(inodes[dirents[path]]),
            value |-> parseJsonStrToObject(inodes[dirents[path]]),
            stored |-> Stored(path), unlinks |-> hist.unlinks]>>
    ELSE <<[exists |-> FALSE, whole |-> FALSE, value |-> EmptyObj,
            stored |-> Stored(path), unlinks |-> hist.unlinks]>>

Idle == [handler |-> "idle", pc |-> "idle", in |-> NoInput, call |-> NoCall,
         loc |-> EmptyObj, tok |-> EmptyObj, usr |-> EmptyObj, vt |-> 0,
         ok |-> FALSE, pre |-> << >>, res |-> NoResponse]

\* Inodes still referenced by a path or by an open descriptor.
Live(d, p) == ({d[x] : x \in DOMAIN d} \cup {p[q].call.fd : q \in Procs}) \ {0}

Collect(ino, d, p) == [i \in DOMAIN ino \cap Live(d, p) |-> ino[i]]

NewInode == CHOOSE i \in 1..(Cardinality(DOMAIN inodes) + 1) : i \notin DOMAIN inodes

Init ==
    /\ dirents = << >>
    /\ inodes = << >>
    /\ now = Epoch
    /\ proc = [p \in Procs |-> Idle]
    /\ started = 0
    /\ hist = [stored |-> << >>, unlinks |-> 0]
    /\ resp = Idle

(***************************************************************************)
(* lib/data.js: the fs calls of the store, one step each.                  *)
(***************************************************************************)
Call(p) == proc[p].call

At(p, fn, stage) == Call(p).fn = fn /\ Call(p).stage = stage

\* A step in which the call of p goes from stage `from` to another stage.
Leaves(p, fn, from) == At(p, fn, from) /\ proc'[p].call.stage # from

\* fs.open(path, 'wx'): fails if the path exists, else creates an empty file.
DataCreateOpen_NotExclusive(p) ==
    /\ At(p, "create", "open")
    /\ LET path == Call(p).path
           i == IF path \in DOMAIN dirents THEN dirents[path] ELSE NewInode
       IN /\ dirents' = Put(dirents, path, i)
          /\ inodes' = Put(inodes, i, EmptyFile)
          /\ proc' = [proc EXCEPT ![p].call.fd = i, ![p].call.stage = "write",
                                  ![p].pre = Snapshot(path)]
    /\ UNCHANGED <<now, started, hist, resp>>

DataCreateOpen(p) ==
    /\ At(p, "create", "open")
    /\ LET path == Call(p).path
       IN IF path \in DOMAIN dirents
          THEN /\ proc' = [proc EXCEPT ![p].call.stage = "rejected",
                                       ![p].pre = Snapshot(path)]
               /\ UNCHANGED <<dirents, inodes>>
          ELSE /\ dirents' = Put(dirents, path, NewInode)
               /\ inodes' = Put(inodes, NewInode, EmptyFile)
               /\ proc' = [proc EXCEPT ![p].call.fd = NewInode,
                                       ![p].call.stage = "write",
                                       ![p].pre = Snapshot(path)]
    /\ UNCHANGED <<now, started, hist, resp>>

\* fs.writeFile(fd, stringData) of create.
DataCreateWrite(p) ==
    /\ At(p, "create", "write")
    /\ inodes' = [inodes EXCEPT ![Call(p).fd] = WriteAtStart(@, Call(p).data)]
    /\ proc' = [proc EXCEPT ![p].call.stage = "close"]
    /\ UNCHANGED <<dirents, now, started, hist, resp>>

\* fs.close(fd) of create, then resolve().
DataCreateClose(p) ==
    /\ At(p, "create", "close")
    /\ proc' = [proc EXCEPT ![p].call.fd = 0, ![p].call.stage = "resolved"]
    /\ inodes' = Collect(inodes, dirents, proc')
    /\ hist' = [hist EXCEPT !.stored = Put(@, Call(p).path, Call(p).data)]
    /\ UNCHANGED <<dirents, now, started, resp>>

\* fs.readFile(path, 'utf8'), then resolve(parseJsonStrToObject(data)).
DataRead(p) ==
    /\ At(p, "read", "readFile")
    /\ LET path == Call(p).path
       IN IF path \in DOMAIN dirents
          THEN proc' = [proc EXCEPT
                          ![p].call.out = parseJsonStrToObject(inodes[dirents[path]]),
                          ![p].call.stage = "resolved",
                          ![p].pre = Snapshot(path)]
          ELSE proc' = [proc EXCEPT ![p].call.stage = "rejected",
                                    ![p].pre = Snapshot(path)]
    /\ UNCHANGED <<dirents, inodes, now, started, hist, resp>>

\* fs.open(path, 'r+'): fails if the path does not exist.
DataUpdateOpen_Upsert(p) ==
    /\ At(p, "update", "open")
    /\ LET path == Call(p).path
           i == IF path \in DOMAIN dirents THEN dirents[path] ELSE NewInode
       IN /\ dirents' = Put(dirents, path, i)
          /\ inodes' = IF path \in DOMAIN dirents THEN inodes
                                                  ELSE Put(inodes, i, EmptyFile)
          /\ proc' = [proc EXCEPT ![p].call.fd = i, ![p].call.stage = "truncate",
                                  ![p].pre = Snapshot(path)]
    /\ UNCHANGED <<now, started, hist, resp>>

DataUpdateOpen(p) ==
    /\ At(p, "update", "open")
    /\ LET path == Call(p).path
       IN IF path \in DOMAIN dirents
          THEN proc' = [proc EXCEPT ![p].call.fd = dirents[path],
                                    ![p].call.stage = "truncate",
                                    ![p].pre = Snapshot(path)]
          ELSE proc' = [proc EXCEPT ![p].call.stage = "rejected",
                                    ![p].pre = Snapshot(path)]
    /\ UNCHANGED <<dirents, inodes, now, started, hist, resp>>

\* fs.ftruncate(fd).
DataUpdateTruncate(p) ==
    /\ At(p, "update", "truncate")
    /\ inodes' = [inodes EXCEPT ![Call(p).fd] = Ftruncate(@)]
    /\ proc' = [proc EXCEPT ![p].call.stage = "write"]
    /\ UNCHANGED <<dirents, now, started, hist, resp>>

\* fs.writeFile(fd, stringData) of update.
DataUpdateWrite(p) ==
    /\ At(p, "update", "write")
    /\ inodes' = [inodes EXCEPT ![Call(p).fd] = WriteAtStart(@, Call(p).data)]
    /\ proc' = [proc EXCEPT ![p].call.stage = "close"]
    /\ UNCHANGED <<dirents, now, started, hist, resp>>

\* fs.close(fd) of update, then resolve().
DataUpdateClose(p) ==
    /\ At(p, "update", "close")
    /\ proc' = [proc EXCEPT ![p].call.fd = 0, ![p].call.stage = "resolved"]
    /\ inodes' = Collect(inodes, dirents, proc')
    /\ hist' = [hist EXCEPT !.stored = Put(@, Call(p).path, Call(p).data)]
    /\ UNCHANGED <<dirents, now, started, resp>>

\* fs.unlink(path): fails if the path does not exist.
DataDelete_KeepsEntry(p) ==
    /\ At(p, "delete", "unlink")
    /\ LET path == Call(p).path
       IN IF path \in DOMAIN dirents
          THEN /\ proc' = [proc EXCEPT ![p].call.stage = "resolved",
                                       ![p].pre = Snapshot(path)]
               /\ hist' = [stored |-> Without(hist.stored, path),
                           unlinks |-> hist.unlinks + 1]
          ELSE /\ proc' = [proc EXCEPT ![p].call.stage = "rejected",
                                       ![p].pre = Snapshot(path)]
               /\ UNCHANGED hist
    /\ UNCHANGED <<dirents, inodes, now, started, resp>>

DataDelete(p) ==
    /\ At(p, "delete", "unlink")
    /\ LET path == Call(p).path
       IN IF path \in DOMAIN dirents
          THEN /\ dirents' = Without(dirents, path)
               /\ proc' = [proc EXCEPT ![p].call.stage = "resolved",
                                       ![p].pre = Snapshot(path)]
               /\ inodes' = Collect(inodes, dirents', proc')
               /\ hist' = [stored |-> Without(hist.stored, path),
                           unlinks |-> hist.unlinks + 1]
          ELSE /\ proc' = [proc EXCEPT ![p].call.stage = "rejected",
                                       ![p].pre = Snapshot(path)]
               /\ UNCHANGED <<dirents, inodes, hist>>
    /\ UNCHANGED <<now, started, resp>>

DataStep(p) ==
    \/ DataCreateOpen(p)
    \/ DataCreateWrite(p)
    \/ DataCreateClose(p)
    \/ DataRead(p)
    \/ DataUpdateOpen(p)
    \/ DataUpdateTruncate(p)
    \/ DataUpdateWrite(p)
    \/ DataUpdateClose(p)
    \/ DataDelete(p)

(***************************************************************************)
(* The store used directly: callers of lib.create / read / update /        *)
(* delete on one collection, with records of different lengths.            *)
(***************************************************************************)
StoreKeys == {"5551234567"}

StoreData ==
    {[firstName |-> "Al", lastName |-> "Lee", phone |-> "5551234567"],
     [firstName |-> "Bobby", lastName |-> "Lee", phone |-> "5551234567"]}

Free(p) == proc[p].handler = "idle" \/ (proc[p].handler = "store" /\ Settled(Call(p)))

StoreBegin(p) ==
    /\ Free(p)
    /\ \E fn \in {"create", "read", "update", "delete"}, file \in StoreKeys,
          data \in StoreData :
          proc' = [proc EXCEPT ![p] = [Idle EXCEPT
                     !.handler = "store", !.pc = "await",
                     !.call = NewCall(fn, "users", file,
                                      IF fn \in {"create", "update"} THEN data
                                                                     ELSE EmptyObj)]]
    /\ started' = started + 1
    /\ UNCHANGED <<dirents, inodes, now, hist, resp>>

StoreStart(p) == started < MaxCalls /\ StoreBegin(p)

NextStore == \E p \in Procs : StoreStart(p) \/ DataStep(p)

SpecStore == Init /\ [][NextStore]_vars

\* The store used by one caller at a time.
Quiet == \A p \in Procs : Free(p)

SeqStart(p) == Quiet /\ started < MaxSeqCalls /\ StoreBegin(p)

NextSeq == \E p \in Procs : SeqStart(p) \/ DataStep(p)

SpecSeq == Init /\ [][NextSeq]_vars

(***************************************************************************)
(* lib/handlers.js.  A request is accepted by the action named after its   *)
(* handler, which runs the handler up to its first await; each later       *)
(* action is the code that runs when the awaited store call has settled.   *)
(***************************************************************************)
Available(p) == proc[p].handler = "idle"

Request(handler, in) == [Idle EXCEPT !.handler = handler, !.in = in]

\* resolve({ statusCode, payload }): the request is answered and its slot is
\* free again.
Reply(p, rec, statusCode, payload) ==
    /\ resp' = [rec EXCEPT !.pc = "done", !.call = NoCall, !.pre = << >>,
                   !.res = [statusCode |-> statusCode, payload |-> payload]]
    /\ proc' = [proc EXCEPT ![p] = Idle]

\* error(resolve, statusCode, message); without a message the error key is
\* undefined and the payload serializes as {}.
ErrorPayload(message) == IF message = "" THEN EmptyObj ELSE [error |-> message]

ReplyError(p, rec, statusCode, message) ==
    Reply(p, rec, statusCode, ErrorPayload(message))

Await(p, rec, pc, call) ==
    /\ proc' = [proc EXCEPT ![p] = [rec EXCEPT !.pc = pc, !.call = call, !.pre = << >>]]
    /\ resp' = resp

Resumes(p, handler, pc) ==
    /\ proc[p].handler = handler
    /\ proc[p].pc = pc
    /\ Settled(Call(p))

Resolved(p) == Call(p).stage = "resolved"

\* The inputs requests are drawn from; "" is an absent field.
PhoneInputs == {"5551234567", "5559876543", ""}

FirstNameInputs == {"Al", "Bobby", ""}

LastNameInputs == {"Lee", ""}

PasswordInputs == {"pw1", "pw2", ""}

\* The token header: an id, or undefined (which names the file "undefined").
TokenInputs == createRandomString(20) \cup {"undefined"}

IdInputs == createRandomString(20) \cup {""}

\* _verifyToken, on the token it read: false when the token is for another
\* phone and has expired, true otherwise.
verifyTokenData(tokenData, phone, t) ==
    ~ /\ ~(Has(tokenData, "phone") /\ tokenData.phone = phone)
      /\ Has(tokenData, "expires") /\ tokenData.expires <= t

\* The outcome of _verifyToken once its read has settled (a failed read gives
\* false), with the token and the instant it was judged on.
Verified(p, phone) ==
    [proc[p] EXCEPT
        !.tok = IF Resolved(p) THEN Call(p).out ELSE EmptyObj,
        !.vt = now,
        !.ok = Resolved(p) /\ verifyTokenData(Call(p).out, phone, now)]

\* _users.post
UsersPost(p) ==
    /\ Available(p)
    /\ started < MaxRequests
    /\ \E phoneIn \in PhoneInputs, firstNameIn \in {"Al"}, lastNameIn \in {"Lee"},
          passwordIn \in {"pw1"}, tosIn \in BOOLEAN :
        LET in == [NoInput EXCEPT !.phone = phoneIn, !.firstName = firstNameIn,
                                  !.lastName = lastNameIn, !.password = passwordIn,
                                  !.tosAgreement = tosIn]
            rec == Request("users.post", in)
            firstName == stringOrFalse(in.firstName)
            lastName == stringOrFalse(in.lastName)
            phone == IF validators_phone(in.phone) THEN trim(in.phone) ELSE ""
            password == stringOrFalse(in.password)
            tosAgreement == in.tosAgreement
            hashedPassword == hash(password)
            userObject == [firstName |-> firstName, lastName |-> lastName,
                           phone |-> phone, hashedPassword |-> hashedPassword,
                           tosAgreement |-> tosAgreement, checks |-> << >>]
        IN  IF firstName = "" \/ lastName = "" \/ phone = "" \/ password = ""
               \/ ~tosAgreement
            THEN ReplyError(p, rec, 400, "Missing required fields")
            ELSE IF checkIfExists("users", phone)
            THEN ReplyError(p, rec, 400, "A user with this phone number already exists")
            ELSE IF hashedPassword = ""
            THEN ReplyError(p, rec, 500, "Could not hash the user's password")
            ELSE Await(p, [rec EXCEPT !.loc = userObject], "create",
                       NewCall("create", "users", phone, userObject))
    /\ started' = started + 1
    /\ UNCHANGED <<dirents, inodes, now, hist>>

UsersPostCreated(p) ==
    /\ Resumes(p, "users.post", "create")
    /\ IF Resolved(p)
       THEN Reply(p, proc[p], 200, EmptyObj)
       ELSE ReplyError(p, proc[p], 500, "Could not create the new user")
    /\ UNCHANGED <<dirents, inodes, now, started, hist>>

\* _users.get
UsersGet(p) ==
    /\ Available(p)
    /\ started < MaxRequests
    /\ \E phoneIn \in PhoneInputs, tokenIn \in TokenInputs :
        LET in == [NoInput EXCEPT !.phone = phoneIn, !.token = tokenIn]
            rec == Request("users.get", in)
        IN  IF ~validators_phone(in.phone)
            THEN ReplyError(p, rec, 400, "Missing required fields")
            ELSE Await(p, rec, "verify", NewCall("read", "tokens", in.token, EmptyObj))
    /\ started' = started + 1
    /\ UNCHANGED <<dirents, inodes, now, hist>>

UsersGetVerified(p) ==
    /\ Resumes(p, "users.get", "verify")
    /\ IF ~Verified(p, proc[p].in.phone).ok
       THEN ReplyError(p, Verified(p, proc[p].in.phone), 403, "Token is missing or invalid")
       ELSE Await(p, Verified(p, proc[p].in.phone), "read",
                  NewCall("read", "users", proc[p].in.phone, EmptyObj))
    /\ UNCHANGED <<dirents, inodes, now, started, hist>>

UsersGetRead_Whole(p) ==
    /\ Resumes(p, "users.get", "read")
    /\ IF Resolved(p)
       THEN Reply(p, proc[p], 200, Call(p).out)
       ELSE ReplyError(p, proc[p], 404, "")
    /\ UNCHANGED <<dirents, inodes, now, started, hist>>

UsersGetRead(p) ==
    /\ Resumes(p, "users.get", "read")
    /\ IF Resolved(p)
       THEN Reply(p, proc[p], 200, Without(Call(p).out, "hashedPassword"))
       ELSE ReplyError(p, proc[p], 404, "")
    /\ UNCHANGED <<dirents, inodes, now, started, hist>>

\* _users.put
UsersPut(p) ==
    /\ Available(p)
    /\ started < MaxRequests
    /\ \E phoneIn \in PhoneInputs, firstNameIn \in FirstNameInputs \ {"Al"},
          lastNameIn \in LastNameInputs, passwordIn \in PasswordInputs \ {"pw1"},
          tokenIn \in TokenInputs :
        LET in == [NoInput EXCEPT !.phone = phoneIn, !.firstName = firstNameIn,
                                  !.lastName = lastNameIn, !.password = passwordIn,
                                  !.token = tokenIn]
            rec == Request("users.put", in)
            phone == IF validators_phone(in.phone) THEN trim(in.phone) ELSE ""
            firstName == stringOrFalse(in.firstName)
            lastName == stringOrFalse(in.lastName)
            password == stringOrFalse(in.password)
        IN  IF phone = ""
            THEN ReplyError(p, rec, 400, "Missing required fields")
            ELSE IF firstName = "" /\ lastName = "" /\ password = ""
            THEN ReplyError(p, rec, 400, "Missing fields to update")
            ELSE Await(p, rec, "verify", NewCall("read", "tokens", in.token, EmptyObj))
    /\ started' = started + 1
    /\ UNCHANGED <<dirents, inodes, now, hist>>

UsersPutVerified(p) ==
    /\ Resumes(p, "users.put", "verify")
    /\ IF ~Verified(p, trim(proc[p].in.phone)).ok
       THEN ReplyError(p, Verified(p, trim(proc[p].in.phone)), 403, "Token is missing or invalid")
       ELSE Await(p, Verified(p, trim(proc[p].in.phone)), "read",
                  NewCall("read", "users", trim(proc[p].in.phone), EmptyObj))
    /\ UNCHANGED <<dirents, inodes, now, started, hist>>

UsersPutRead(p) ==
    /\ Resumes(p, "users.put", "read")
    /\ LET firstName == stringOrFalse(proc[p].in.firstName)
           lastName == stringOrFalse(proc[p].in.lastName)
           password == stringOrFalse(proc[p].in.password)
           u0 == Call(p).out
           u1 == IF firstName # "" THEN Put(u0, "firstName", firstName) ELSE u0
           u2 == IF lastName # "" THEN Put(u1, "lastName", lastName) ELSE u1
           userData == IF password # "" THEN Put(u2, "hashedPassword", hash(lastName))
                                        ELSE u2
       IN  IF Resolved(p)
           THEN Await(p, [proc[p] EXCEPT !.loc = userData], "update",
                      NewCall("update", "users", trim(proc[p].in.phone), userData))
           ELSE ReplyError(p, proc[p], 400, "The specified user does not exist")
    /\ UNCHANGED <<dirents, inodes, now, started, hist>>

UsersPutUpdated(p) ==
    /\ Resumes(p, "users.put", "update")
    /\ IF Resolved(p)
       THEN Reply(p, proc[p], 200, EmptyObj)
       ELSE ReplyError(p, proc[p], 500, "Could not update the user")
    /\ UNCHANGED <<dirents, inodes, now, started, hist>>

\* _users.delete
UsersDelete(p) ==
    /\ Available(p)
    /\ started < MaxRequests
    /\ \E phoneIn \in PhoneInputs, tokenIn \in TokenInputs :
        LET in == [NoInput EXCEPT !.phone = phoneIn, !.token = tokenIn]
            rec == Request("users.delete", in)
            phone == IF validators_phone(in.phone) THEN trim(in.phone) ELSE ""
        IN  IF phone = ""
            THEN ReplyError(p, rec, 400, "Missing required fields")
            ELSE Await(p, rec, "verify", NewCall("read", "tokens", in.token, EmptyObj))
    /\ started' = started + 1
    /\ UNCHANGED <<dirents, inodes, now, hist>>

UsersDeleteVerified(p) ==
    /\ Resumes(p, "users.delete", "verify")
    /\ IF ~Verified(p, trim(proc[p].in.phone)).ok
       THEN ReplyError(p, Verified(p, trim(proc[p].in.phone)), 403, "Token is missing or invalid")
       ELSE Await(p, Verified(p, trim(proc[p].in.phone)), "read",
                  NewCall("read", "users", trim(proc[p].in.phone), EmptyObj))
    /\ UNCHANGED <<dirents, inodes, now, started, hist>>

UsersDeleteRead_Cascade(p) ==
    /\ Resumes(p, "users.delete", "read")
    /\ IF Resolved(p)
       THEN Await(p, proc[p], "delete",
                  NewCall("delete", "tokens", proc[p].in.token, EmptyObj))
       ELSE ReplyError(p, proc[p], 400, "Could not find the specified user")
    /\ UNCHANGED <<dirents, inodes, now, started, hist>>

UsersDeleteRead(p) ==
    /\ Resumes(p, "users.delete", "read")
    /\ IF Resolved(p)
       THEN Await(p, proc[p], "delete",
                  NewCall("delete", "users", trim(proc[p].in.phone), EmptyObj))
       ELSE ReplyError(p, proc[p], 400, "Could not find the specified user")
    /\ UNCHANGED <<dirents, inodes, now, started, hist>>

UsersDeleteDeleted(p) ==
    /\ Resumes(p, "users.delete", "delete")
    /\ IF Resolved(p)
       THEN Reply(p, proc[p], 200, EmptyObj)
       ELSE ReplyError(p, proc[p], 500, "Could not delete the specified user")
    /\ UNCHANGED <<dirents, inodes, now, started, hist>>

\* _tokens.post
TokensPost(p) ==
    /\ Available(p)
    /\ started < MaxRequests
    /\ \E phoneIn \in PhoneInputs, passwordIn \in PasswordInputs :
        LET in == [NoInput EXCEPT !.phone = phoneIn, !.password = passwordIn]
            rec == Request("tokens.post", in)
            phone == IF validators_phone(in.phone) THEN trim(in.phone) ELSE ""
            password == stringOrFalse(in.password)
        IN  IF phone = "" \/ password = ""
            THEN ReplyError(p, rec, 400, "Missing required fields")
            ELSE Await(p, rec, "read", NewCall("read", "users", phone, EmptyObj))
    /\ started' = started + 1
    /\ UNCHANGED <<dirents, inodes, now, hist>>

\* The token _tokens.post creates at instant t.
TokenObject_NoTTL(phone, tokenId, t) == [phone |-> phone, id |-> tokenId, expires |-> t]

TokenObject(phone, tokenId, t) == [phone |-> phone, id |-> tokenId, expires |-> t + TTL]

TokensPostRead(p) ==
    /\ Resumes(p, "tokens.post", "read")
    /\ LET phone == trim(proc[p].in.phone)
           userData == Call(p).out
           hashedPassword == hash(stringOrFalse(proc[p].in.password))
       IN  IF ~Resolved(p)
           THEN ReplyError(p, proc[p], 400, "Could not find the specified user")
           ELSE IF ~(Has(userData, "hashedPassword")
                     /\ hashedPassword = userData.hashedPassword)
           THEN ReplyError(p, proc[p], 400, "Password did not match")
           ELSE \E tokenId \in createRandomString(20) :
                  LET tokenObject == TokenObject(phone, tokenId, now)
                  IN Await(p, [proc[p] EXCEPT !.loc = tokenObject, !.vt = now],
                           "create", NewCall("create", "tokens", tokenId, tokenObject))
    /\ UNCHANGED <<dirents, inodes, now, started, hist>>

TokensPostCreated(p) ==
    /\ Resumes(p, "tokens.post", "create")
    /\ IF Resolved(p)
       THEN Reply(p, proc[p], 200, proc[p].loc)
       ELSE ReplyError(p, proc[p], 500, "Could not create the new token")
    /\ UNCHANGED <<dirents, inodes, now, started, hist>>

\* _tokens.get
TokensGet(p) ==
    /\ Available(p)
    /\ started < MaxRequests
    /\ \E idIn \in IdInputs :
        LET in == [NoInput EXCEPT !.id = idIn]
            rec == Request("tokens.get", in)
        IN  IF in.id = ""
            THEN ReplyError(p, rec, 400, "Missing required fields")
            ELSE Await(p, rec, "read", NewCall("read", "tokens", in.id, EmptyObj))
    /\ started' = started + 1
    /\ UNCHANGED <<dirents, inodes, now, hist>>

TokensGetRead(p) ==
    /\ Resumes(p, "tokens.get", "read")
    /\ IF Resolved(p)
       THEN Reply(p, proc[p], 200, Call(p).out)
       ELSE ReplyError(p, proc[p], 404, "")
    /\ UNCHANGED <<dirents, inodes, now, started, hist>>

\* _tokens.put
TokensPut(p) ==
    /\ Available(p)
    /\ started < MaxRequests
    /\ \E idIn \in IdInputs, extendIn \in BOOLEAN :
        LET in == [NoInput EXCEPT !.id = idIn, !.extend = extendIn]
            rec == Request("tokens.put", in)
        IN  IF in.id = "" \/ ~in.extend
            THEN ReplyError(p, rec, 400, "Missing required fields")
            ELSE Await(p, rec, "read", NewCall("read", "tokens", in.id, EmptyObj))
    /\ started' = started + 1
    /\ UNCHANGED <<dirents, inodes, now, hist>>

\* The token as _tokens.put writes it back.
Extended_FromOldExpiry(tokenData, t) ==
    Put(tokenData, "expires",
        (IF Has(tokenData, "expires") THEN tokenData.expires ELSE t) + TTL)

Extended(tokenData, t) == Put(tokenData, "expires", t + TTL)

\* tokenData.expires <= Date.now(); false when expires is undefined.
AlreadyExpired_Strict(tokenData, t) ==
    Has(tokenData, "expires") /\ tokenData.expires < t

AlreadyExpired(tokenData, t) ==
    Has(tokenData, "expires") /\ tokenData.expires <= t

TokensPutRead(p) ==
    /\ Resumes(p, "tokens.put", "read")
    /\ LET tokenData == Call(p).out
           rec == [proc[p] EXCEPT !.tok = tokenData, !.vt = now]
       IN  IF ~Resolved(p)
           THEN ReplyError(p, proc[p], 400, "Specified token does not exist")
           ELSE IF AlreadyExpired(tokenData, now)
           THEN ReplyError(p, rec, 400,
                           "The token has already expired and can not be extended")
           ELSE Await(p, [rec EXCEPT !.loc = Extended(tokenData, now)], "update",
                      NewCall("update", "tokens", proc[p].in.id,
                              Extended(tokenData, now)))
    /\ UNCHANGED <<dirents, inodes, now, started, hist>>

TokensPutUpdated(p) ==
    /\ Resumes(p, "tokens.put", "update")
    /\ IF Resolved(p)
       THEN Reply(p, proc[p], 200, EmptyObj)
       ELSE ReplyError(p, proc[p], 500, "Could not update the token's expiration")
    /\ UNCHANGED <<dirents, inodes, now, started, hist>>

\* _tokens.delete
TokensDelete(p) ==
    /\ Available(p)
    /\ started < MaxRequests
    /\ \E idIn \in IdInputs :
        LET in == [NoInput EXCEPT !.id = idIn]
            rec == Request("tokens.delete", in)
        IN  IF in.id = ""
            THEN ReplyError(p, rec, 400, "Missing required fields")
            ELSE Await(p, rec, "read", NewCall("read", "tokens", in.id, EmptyObj))
    /\ started' = started + 1
    /\ UNCHANGED <<dirents, inodes, now, hist>>

TokensDeleteRead(p) ==
    /\ Resumes(p, "tokens.delete", "read")
    /\ IF Resolved(p)
       THEN Await(p, proc[p], "delete",
                  NewCall("delete", "tokens", proc[p].in.id, EmptyObj))
       ELSE ReplyError(p, proc[p], 400, "Could not find the specified token")
    /\ UNCHANGED <<dirents, inodes, now, started, hist>>

TokensDeleteDeleted(p) ==
    /\ Resumes(p, "tokens.delete", "delete")
    /\ IF Resolved(p)
       THEN Reply(p, proc[p], 200, EmptyObj)
       ELSE ReplyError(p, proc[p], 500, "Could not delete the specified token")
    /\ UNCHANGED <<dirents, inodes, now, started, hist>>

\* An exception that nothing catches.  The promise of the request is never
\* resolved and the rejection goes unhandled: depending on the runtime the
\* request stays without an answer, or the process exits and every request
\* in flight is lost with it.
Down == [Idle EXCEPT !.handler = "down", !.pc = "down"]

Throws(p, rec) ==
    /\ resp' = resp
    /\ \/ proc' = [proc EXCEPT ![p] = [rec EXCEPT !.pc = "unanswered"]]
       \/ proc' = [q \in Procs |-> Down]

\* The payload of a check; "" , <<>> and 0 are absent fields.
ProtocolInputs == {"https", "ftp"}

UrlInputs == {"example.com", ""}

MethodInputs == {"get", "head"}

SuccessCodesInputs == {<<200>>, << >>}

TimeoutSecondsInputs == {3, 6}

\* successCodes is a non-empty array.
successCodesOrFalse(codes) == IF Len(codes) > 0 THEN codes ELSE << >>

\* The five fields of a check are all of the required shape.
CheckFields(in) ==
    /\ protocolOrFalse(in.protocol) # "" /\ stringOrFalse(in.url) # ""
    /\ methodOrFalse(in.method) # "" /\ successCodesOrFalse(in.successCodes) # << >>
    /\ timeoutSecondsOrFalse(in.timeoutSeconds) # 0

\* _checks.post.  missingRequiredFieldsError is called without resolve: error
\* then calls undefined and throws.
ChecksPost(p) ==
    /\ Available(p)
    /\ started < MaxRequests
    /\ \E protocolIn \in ProtocolInputs, urlIn \in UrlInputs, methodIn \in MethodInputs,
          successCodesIn \in SuccessCodesInputs,
          timeoutSecondsIn \in TimeoutSecondsInputs, tokenIn \in TokenInputs :
        LET in == [NoInput EXCEPT !.protocol = protocolIn, !.url = urlIn,
                                  !.method = methodIn,
                                  !.successCodes = successCodesIn,
                                  !.timeoutSeconds = timeoutSecondsIn,
                                  !.token = tokenIn]
            rec == Request("checks.post", in)
        IN  IF ~CheckFields(in)
            THEN Throws(p, rec)
            ELSE Await(p, rec, "token", NewCall("read", "tokens", in.token, EmptyObj))
    /\ started' = started + 1
    /\ UNCHANGED <<dirents, inodes, now, hist>>

\* _data.read('users') is called without a key: it reads users/undefined.json.
ChecksPostToken(p) ==
    /\ Resumes(p, "checks.post", "token")
    /\ IF ~Resolved(p)
       THEN ReplyError(p, proc[p], 403, "Token is missing or invalid")
       ELSE Await(p, [proc[p] EXCEPT !.tok = Call(p).out, !.vt = now], "user",
                  NewCall("read", "users", "undefined", EmptyObj))
    /\ UNCHANGED <<dirents, inodes, now, started, hist>>

\* checks >= config.maxChecks compares an array with a number: the array
\* counts as the number its elements, joined by commas, spell.  No element
\* spells 0, and an id that has a letter in it spells no number.
MaxChecksReached(userData) ==
    Has(userData, "checks") /\ userData.checks = << >> /\ 0 >= maxChecks

CheckObject(checkId, userPhone, in) ==
    LET checkObject == [id |-> checkId, protocol |-> in.protocol,
                        url |-> stringOrFalse(in.url), method |-> in.method,
                        successCodes |-> in.successCodes,
                        timeoutSeconds |-> in.timeoutSeconds]
    IN  IF userPhone = "" THEN checkObject ELSE Put(checkObject, "userPhone", userPhone)

ChecksPostUser(p) ==
    /\ Resumes(p, "checks.post", "user")
    /\ LET userData == Call(p).out
           userPhone == IF Has(proc[p].tok, "phone") THEN proc[p].tok.phone ELSE ""
       IN  IF ~Resolved(p)
           THEN ReplyError(p, proc[p], 403, "Token is missing or invalid")
           ELSE IF MaxChecksReached(userData)
           THEN ReplyError(p, proc[p], 400,
                           "The user already has the maximum number of checks")
           ELSE \E checkId \in createRandomString(20) :
                  Await(p, [proc[p] EXCEPT !.usr = userData,
                                           !.loc = CheckObject(checkId, userPhone, proc[p].in)],
                        "create",
                        NewCall("create", "checks", checkId,
                                CheckObject(checkId, userPhone, proc[p].in)))
    /\ UNCHANGED <<dirents, inodes, now, started, hist>>

\* [...checks, checkId] throws when the user read has no checks; the catch of
\* the create takes it.
ChecksPostCreated(p) ==
    /\ Resumes(p, "checks.post", "create")
    /\ LET userData == proc[p].usr
           userPhone == IF Has(proc[p].tok, "phone") THEN proc[p].tok.phone
                                                     ELSE "undefined"
       IN  IF ~Resolved(p) \/ ~Has(userData, "checks")
           THEN ReplyError(p, proc[p], 500, "Could not create the new check")
           ELSE Await(p, proc[p], "update",
                      NewCall("update", "users", userPhone,
                              Put(userData, "checks",
                                  Append(userData.checks, proc[p].loc.id))))
    /\ UNCHANGED <<dirents, inodes, now, started, hist>>

ChecksPostUpdated(p) ==
    /\ Resumes(p, "checks.post", "update")
    /\ IF Resolved(p)
       THEN Reply(p, proc[p], 200, proc[p].loc)
       ELSE ReplyError(p, proc[p], 500, "Could not update the user with the new check")
    /\ UNCHANGED <<dirents, inodes, now, started, hist>>

(***************************************************************************)
(* index.js: unifiedServer picks the handler by the path; commonHandler    *)
(* picks the method of the resource.  The requests that end in a method of *)
(* _users, _tokens or _checks are the actions above; these are the others. *)
(***************************************************************************)
router == {"ping", "users", "tokens", "checks"}

\* The methods each resource defines.
Methods(handlerName) ==
    IF handlerName = "checks" THEN {"post"} ELSE {"post", "get", "put", "delete"}

\* The path, trimmed of slashes, and the method, in lower case.
PathInputs == {"ping", "users", "tokens", "checks", "nowhere", ""}

ReqMethodInputs == {"post", "get", "put", "delete", "patch", "head"}

\* handlers.notFound: { statusCode: 404 }, no payload.
NotFound(p) ==
    /\ Available(p)
    /\ started < MaxRequests
    /\ \E path \in PathInputs \ router, method \in ReqMethodInputs :
          Reply(p, Request("notFound", [NoInput EXCEPT !.trimmedPath = path,
                                                       !.reqMethod = method]),
                404, EmptyObj)
    /\ started' = started + 1
    /\ UNCHANGED <<dirents, inodes, now, hist>>

\* commonHandler, for a method that is none of post, get, delete, put:
\* { statusCode: 405 }, no payload.
MethodNotAllowed(p) ==
    /\ Available(p)
    /\ started < MaxRequests
    /\ \E path \in (PathInputs \cap router) \ {"ping"}, method \in ReqMethodInputs :
          /\ methodOrFalse(method) = ""
          /\ Reply(p, Request("commonHandler", [NoInput EXCEPT !.trimmedPath = path,
                                                               !.reqMethod = method]),
                   405, EmptyObj)
    /\ started' = started + 1
    /\ UNCHANGED <<dirents, inodes, now, hist>>

\* commonHandler, for one of the four methods that the resource does not
\* define: handlers[`_${handlerName}`][method] is undefined and the call of
\* it throws.
MethodUndefined(p) ==
    /\ Available(p)
    /\ started < MaxRequests
    /\ \E path \in (PathInputs \cap router) \ {"ping"}, method \in ReqMethodInputs :
          /\ methodOrFalse(method) # "" /\ method \notin Methods(path)
          /\ Throws(p, Request("commonHandler", [NoInput EXCEPT !.trimmedPath = path,
                                                                !.reqMethod = method]))
    /\ started' = started + 1
    /\ UNCHANGED <<dirents, inodes, now, hist>>

\* handlers.ping: new Promise.resolve(...) uses Promise.resolve as a
\* constructor, which it is not: the call throws a TypeError before any
\* promise exists, whatever the method of the request.
Ping(p) ==
    /\ Available(p)
    /\ started < MaxRequests
    /\ \E method \in ReqMethodInputs :
          Throws(p, Request("ping", [NoInput EXCEPT !.trimmedPath = "ping",
                                                    !.reqMethod = method]))
    /\ started' = started + 1
    /\ UNCHANGED <<dirents, inodes, now, hist>>

\* Time passes: half the life of a token at a time, so that a token is met
\* before, at and after its expiry.
Tick ==
    /\ now < Epoch + MaxTicks * (TTL \div 2)
    /\ now' = now + TTL \div 2
    /\ UNCHANGED <<dirents, inodes, proc, started, hist, resp>>

UsersStep(p) ==
    \/ UsersPost(p) \/ UsersPostCreated(p)
    \/ UsersGet(p) \/ UsersGetVerified(p) \/ UsersGetRead(p)
    \/ UsersPut(p) \/ UsersPutVerified(p) \/ UsersPutRead(p) \/ UsersPutUpdated(p)
    \/ UsersDelete(p) \/ UsersDeleteVerified(p) \/ UsersDeleteRead(p)
    \/ UsersDeleteDeleted(p)

TokensStep(p) ==
    \/ TokensPost(p) \/ TokensPostRead(p) \/ TokensPostCreated(p)
    \/ TokensGet(p) \/ TokensGetRead(p)
    \/ TokensPut(p) \/ TokensPutRead(p) \/ TokensPutUpdated(p)
    \/ TokensDelete(p) \/ TokensDeleteRead(p) \/ TokensDeleteDeleted(p)

ChecksStep(p) ==
    \/ ChecksPost(p) \/ ChecksPostToken(p) \/ ChecksPostUser(p)
    \/ ChecksPostCreated(p) \/ ChecksPostUpdated(p)

RouteStep(p) == NotFound(p) \/ MethodNotAllowed(p) \/ MethodUndefined(p) \/ Ping(p)

Next ==
    Tick \/ \E p \in Procs : \/ UsersStep(p) \/ TokensStep(p) \/ ChecksStep(p)
                               \/ RouteStep(p) \/ DataStep(p)

Spec == Init /\ [][Next]_vars

(***************************************************************************)
(* Parts of the system, for the properties that concern them.              *)
(***************************************************************************)
\* Signups only, from the empty data directory.
NextSignup ==
    \E p \in Procs :
        \/ UsersPost(p) \/ UsersPostCreated(p)
        \/ DataCreateOpen(p) \/ DataCreateWrite(p) \/ DataCreateClose(p)

SpecSignup == Init /\ [][NextSignup]_vars

\* The server started over a data directory in which, at Epoch, a user signed
\* up and logged in: the user record and one token are on disk.
User1 == [firstName |-> "Al", lastName |-> "Lee", phone |-> "5551234567",
          hashedPassword |-> hash("pw1"), tosAgreement |-> TRUE, checks |-> << >>]

Token1 == [phone |-> "5551234567", id |-> Repeat("a", 20), expires |-> Epoch + TTL]

InitLoggedIn ==
    /\ dirents = (getFileName("users", User1.phone) :> 1)
                    @@ (getFileName("tokens", Token1.id) :> 2)
    /\ inodes = (1 :> [obj |-> <<User1>>, junk |-> ""])
                   @@ (2 :> [obj |-> <<Token1>>, junk |-> ""])
    /\ now = Epoch
    /\ proc = [p \in Procs |-> Idle]
    /\ started = 0
    /\ hist = [stored |-> (getFileName("users", User1.phone) :> User1)
                            @@ (getFileName("tokens", Token1.id) :> Token1),
               unlinks |-> 0]
    /\ resp = Idle

\* Extending tokens, as time passes.
NextExtend ==
    \/ Tick
    \/ \E p \in Procs :
        \/ TokensPut(p) \/ TokensPutRead(p) \/ TokensPutUpdated(p)
        \/ DataRead(p)
        \/ DataUpdateOpen(p) \/ DataUpdateTruncate(p) \/ DataUpdateWrite(p)
        \/ DataUpdateClose(p)

SpecExtend == InitLoggedIn /\ [][NextExtend]_vars

\* Logging in, as time passes.
NextLogin ==
    \/ Tick
    \/ \E p \in Procs :
        \/ TokensPost(p) \/ TokensPostRead(p) \/ TokensPostCreated(p)
        \/ DataRead(p)
        \/ DataCreateOpen(p) \/ DataCreateWrite(p) \/ DataCreateClose(p)

SpecLogin == InitLoggedIn /\ [][NextLogin]_vars

\* Updating users under a token.
NextProfile ==
    \E p \in Procs :
        \/ UsersPut(p) \/ UsersPutVerified(p) \/ UsersPutRead(p) \/ UsersPutUpdated(p)
        \/ DataRead(p)
        \/ DataUpdateOpen(p) \/ DataUpdateTruncate(p) \/ DataUpdateWrite(p)
        \/ DataUpdateClose(p)

SpecProfile == InitLoggedIn /\ [][NextProfile]_vars

\* Creating checks under a token.  The later
\* steps of _checks.post (ChecksPostCreated, ChecksPostUpdated) follow a read
\* of users/undefined.json that resolved; no such file is ever made, and
\* they are left out.
NextChecks ==
    \E p \in Procs :
        \/ ChecksPost(p) \/ ChecksPostToken(p) \/ ChecksPostUser(p)
        \/ DataRead(p)

SpecChecks == InitLoggedIn /\ [][NextChecks]_vars

\* Requests that no method of a resource takes.
NextRoute == \E p \in Procs : NotFound(p) \/ MethodNotAllowed(p) \/ MethodUndefined(p)

SpecRoute == Init /\ [][NextRoute]_vars

\* Pings, next to signups that fill the data directory.
NextPing ==
    \E p \in Procs :
        \/ Ping(p)
        \/ UsersPost(p) \/ UsersPostCreated(p)
        \/ DataCreateOpen(p) \/ DataCreateWrite(p) \/ DataCreateClose(p)

SpecPing == Init /\ [][NextPing]_vars

\* Every request that unifiedServer dispatches other than to a method of
\* _users or _tokens, on a server that keeps running: a step that can be
\* taken is taken in the end.
NextDispatch ==
    \E p \in Procs :
        \/ NotFound(p) \/ MethodNotAllowed(p) \/ MethodUndefined(p) \/ Ping(p)
        \/ ChecksPost(p) \/ ChecksPostToken(p) \/ ChecksPostUser(p)
        \/ DataRead(p)

SpecDispatch == InitLoggedIn /\ [][NextDispatch]_vars /\ WF_vars(NextDispatch)

\* Deleting users under a token, and looking tokens up.
NextDelete ==
    \E p \in Procs :
        \/ UsersDelete(p) \/ UsersDeleteVerified(p) \/ UsersDeleteRead(p)
        \/ UsersDeleteDeleted(p)
        \/ TokensGet(p) \/ TokensGetRead(p)
        \/ DataRead(p) \/ DataDelete(p)

SpecDelete == InitLoggedIn /\ [][NextDelete]_vars

\* The life of a token after its issue: looked up, extended and deleted, as
\* time passes.
NextTokens ==
    \/ Tick
    \/ \E p \in Procs :
        \/ TokensGet(p) \/ TokensGetRead(p)
        \/ TokensPut(p) \/ TokensPutRead(p) \/ TokensPutUpdated(p)
        \/ TokensDelete(p) \/ TokensDeleteRead(p) \/ TokensDeleteDeleted(p)
        \/ DataRead(p)
        \/ DataUpdateOpen(p) \/ DataUpdateTruncate(p) \/ DataUpdateWrite(p)
        \/ DataUpdateClose(p)
        \/ DataDelete(p)

SpecTokens == InitLoggedIn /\ [][NextTokens]_vars

\* Extending and deleting tokens at once.
NextRevoke ==
    \E p \in Procs :
        \/ TokensPut(p) \/ TokensPutRead(p) \/ TokensPutUpdated(p)
        \/ TokensDelete(p) \/ TokensDeleteRead(p) \/ TokensDeleteDeleted(p)
        \/ DataRead(p)
        \/ DataUpdateOpen(p) \/ DataUpdateTruncate(p) \/ DataUpdateWrite(p)
        \/ DataUpdateClose(p)
        \/ DataDelete(p)

SpecRevoke == InitLoggedIn /\ [][NextRevoke]_vars

\* Updating and deleting users at once.
NextRemove ==
    \E p \in Procs :
        \/ UsersPut(p) \/ UsersPutVerified(p) \/ UsersPutRead(p) \/ UsersPutUpdated(p)
        \/ UsersDelete(p) \/ UsersDeleteVerified(p) \/ UsersDeleteRead(p)
        \/ UsersDeleteDeleted(p)
        \/ DataRead(p)
        \/ DataUpdateOpen(p) \/ DataUpdateTruncate(p) \/ DataUpdateWrite(p)
        \/ DataUpdateClose(p)
        \/ DataDelete(p)

SpecRemove == InitLoggedIn /\ [][NextRemove]_vars

\* Reading and deleting users under a token, as time passes.
NextAuth ==
    \/ Tick
    \/ \E p \in Procs :
        \/ UsersGet(p) \/ UsersGetVerified(p) \/ UsersGetRead(p)
        \/ UsersDelete(p) \/ UsersDeleteVerified(p) \/ UsersDeleteRead(p)
        \/ UsersDeleteDeleted(p)
        \/ DataRead(p) \/ DataDelete(p)

SpecAuth == InitLoggedIn /\ [][NextAuth]_vars

(***************************************************************************)
(* Properties of the handlers.  resp is the request answered last: its     *)
(* inputs (in), the token _verifyToken or _tokens.put read (tok, {} when   *)
(* the read failed), the instant it was judged at (vt, 0 when the request  *)
(* was answered before that), the verdict of _verifyToken (ok), the record *)
(* the request wrote (loc), and the response (res).                        *)
(***************************************************************************)
UserHandlers == {"users.get", "users.put", "users.delete"}

\* The last answer is that of a user request whose token was looked up.
Judged == resp.handler \in UserHandlers /\ resp.vt # 0

\* C1: a stored token of one phone never verifies for another phone, expired
\* or not.
C1_OtherPhoneNeverVerifies ==
    (Judged /\ Has(resp.tok, "phone") /\ resp.tok.phone # trim(resp.in.phone))
        => ~resp.ok

\* C2: a stored token of phone P verifies for P exactly at the instants before
\* its expires.
C2_ValidUntilExpiry ==
    (Judged /\ Has(resp.tok, "phone") /\ resp.tok.phone = trim(resp.in.phone)
            /\ Has(resp.tok, "expires"))
        => (resp.ok <=> resp.vt < resp.tok.expires)

\* The token a user request came with is missing or names no stored token
\* (the read failed), is for another phone, or has expired.
BadToken ==
    \/ resp.tok = EmptyObj
    \/ ~Has(resp.tok, "phone") \/ resp.tok.phone # trim(resp.in.phone)
    \/ ~Has(resp.tok, "expires") \/ resp.tok.expires <= resp.vt

\* C3: a user GET, PUT or DELETE that comes with such a token is answered 403
\* with the token error, and no user data.
C3_BadTokenForbidden ==
    (Judged /\ BadToken)
        => /\ resp.res.statusCode = 403
           /\ resp.res.payload = [error |-> "Token is missing or invalid"]

\* The last answer is that of a signup with every required field valid.
ValidSignup ==
    /\ resp.handler = "users.post"
    /\ stringOrFalse(resp.in.firstName) # "" /\ stringOrFalse(resp.in.lastName) # ""
    /\ validators_phone(resp.in.phone) /\ stringOrFalse(resp.in.password) # ""
    /\ resp.in.tosAgreement

\* C4: a valid signup either succeeds or fails with Conflict (400, the user
\* already exists), never with another error.
C4_SignupConflictOnly ==
    ValidSignup
        => \/ resp.res.statusCode = 200
           \/ /\ resp.res.statusCode = 400
              /\ resp.res.payload =
                     [error |-> "A user with this phone number already exists"]

ExpiredError == [error |-> "The token has already expired and can not be extended"]

\* The last answer is that of an extend that read its token.
ExtendJudged == resp.handler = "tokens.put" /\ resp.vt # 0

\* The continuation of _tokens.put runs for p, on a token it read.
ExtendResumes(p) ==
    /\ proc[p].handler = "tokens.put" /\ proc[p].pc = "read"
    /\ Resolved(p)
    /\ proc'[p] # proc[p]

\* C9: an extend that reads a token whose expires is at or before the current
\* instant is answered 400 Expired, and the step that answers leaves every
\* file as it was: the request is over and has written nothing.
C9_ExpiredAnswer ==
    (ExtendJudged /\ Has(resp.tok, "expires") /\ resp.tok.expires <= resp.vt)
        => /\ resp.res.statusCode = 400
           /\ resp.res.payload = ExpiredError

C9_ExpiredStep ==
    \A p \in Procs :
        (ExtendResumes(p) /\ Has(Call(p).out, "expires") /\ Call(p).out.expires <= now)
            => /\ proc'[p] = Idle
               /\ resp'.res.payload = ExpiredError
               /\ dirents' = dirents
               /\ inodes' = inodes

C9_ExpiredNotExtended == []C9_ExpiredAnswer /\ [][C9_ExpiredStep]_vars

TokenPath == getFileName("tokens", Token1.id)

\* An extend at the very instant of expiry was refused and the token on disk
\* is the one that was read.
C9_Witness ==
    /\ ExtendJudged
    /\ resp.tok = Token1 /\ resp.vt = Token1.expires
    /\ resp.res.payload = ExpiredError
    /\ parseJsonStrToObject(inodes[dirents[TokenPath]]) = Token1

\* C10: an extend that reads a token that has not expired is answered 200 and
\* writes the token back with expires one hour after the instant it judged
\* it at, whatever expires was; its write over the file it truncated leaves
\* exactly that record; an extend of an id that names no token is answered
\* 400 and no file appears.
C10_ExtendAnswer ==
    /\ (ExtendJudged /\ Has(resp.tok, "expires") /\ resp.tok.expires > resp.vt)
          => /\ resp.res.statusCode = 200
             /\ resp.loc = [resp.tok EXCEPT !.expires = resp.vt + TTL]
    /\ (resp.handler = "tokens.put" /\ resp.in.id # "" /\ resp.in.extend
                                    /\ resp.vt = 0)
          => /\ resp.res.statusCode = 400
             /\ resp.res.payload = [error |-> "Specified token does not exist"]
             /\ getFileName("tokens", resp.in.id) \notin DOMAIN dirents
    /\ DOMAIN dirents = {getFileName("users", User1.phone), TokenPath}

C10_ExtendWrite ==
    \A p \in Procs :
        (Leaves(p, "update", "write") /\ proc[p].handler = "tokens.put"
                                      /\ inodes[Call(p).fd] = EmptyFile)
            => /\ parseJsonStrToObject(inodes'[Call(p).fd]) = proc[p].loc
               /\ proc[p].loc.expires = proc[p].vt + TTL

C10_ExtendSetsExpiry == []C10_ExtendAnswer /\ [][C10_ExtendWrite]_vars

\* Half an hour after issue the token was extended: it now expires an hour
\* and a half after issue, on disk too.
C10_Witness ==
    /\ ExtendJudged
    /\ resp.res.statusCode = 200
    /\ resp.tok = Token1 /\ resp.vt = Epoch + TTL \div 2
    /\ parseJsonStrToObject(inodes[dirents[TokenPath]])
           = [Token1 EXCEPT !.expires = Epoch + TTL \div 2 + TTL]

\* The last answer is that of a login with a phone and a password.
LoginAnswered ==
    /\ resp.handler = "tokens.post"
    /\ validators_phone(resp.in.phone) /\ stringOrFalse(resp.in.password) # ""

\* The credentials of r are those of the user stored under its phone.
Matches(r) ==
    LET path == getFileName("users", trim(r.in.phone))
    IN  /\ Stored(path) # << >>
        /\ hash(stringOrFalse(r.in.password)) = Stored(path)[1].hashedPassword

\* C11: a login with the phone and password of a stored user is answered 200
\* with a token of that phone that expires one hour after the instant of the
\* login, and that token is on disk under its id (500 when the id drawn names
\* a token that exists already); any other login is answered 400.  A file is
\* only ever added by the create of such a login, one file, under the id of
\* its token.
C11_IssueAnswer ==
    LoginAnswered =>
        IF Matches(resp)
        THEN \/ /\ resp.res.statusCode = 200
                /\ resp.res.payload = [phone |-> trim(resp.in.phone),
                                       id |-> resp.loc.id,
                                       expires |-> resp.vt + TTL]
                /\ resp.loc.id \in createRandomString(20)
                /\ checkIfExists("tokens", resp.loc.id)
                /\ parseJsonStrToObject(inodes[dirents[getFileName("tokens", resp.loc.id)]])
                       = resp.res.payload
             \/ /\ resp.res.statusCode = 500
                /\ resp.res.payload = [error |-> "Could not create the new token"]
        ELSE /\ resp.res.statusCode = 400
             /\ resp.loc = EmptyObj

C11_IssueStep ==
    /\ \A p \in Procs :
          (proc[p].handler = "tokens.post" /\ proc[p].pc = "create"
              /\ Settled(Call(p)) /\ proc'[p] # proc[p])
                 => (Resolved(p) <=> ~proc[p].pre[1].exists)
    /\ DOMAIN dirents' # DOMAIN dirents
          => \E p \in Procs :
                /\ proc[p].handler = "tokens.post" /\ proc[p].pc = "create"
                /\ Matches(proc[p])
                /\ DOMAIN dirents' = DOMAIN dirents \cup {getFileName("tokens", proc[p].loc.id)}
                /\ Cardinality(DOMAIN dirents') = Cardinality(DOMAIN dirents) + 1

C11_IssueToken == []C11_IssueAnswer /\ [][C11_IssueStep]_vars

\* Half an hour after Epoch a login was answered with a new token, which is
\* on disk next to the older one and expires an hour later.
C11_Witness ==
    /\ LoginAnswered /\ Matches(resp)
    /\ resp.res.statusCode = 200
    /\ resp.res.payload = [phone |-> User1.phone, id |-> Repeat("b", 20),
                           expires |-> Epoch + TTL \div 2 + TTL]
    /\ parseJsonStrToObject(inodes[dirents[getFileName("tokens", Repeat("b", 20))]])
           = resp.res.payload
    /\ checkIfExists("tokens", Token1.id)

\* C12: a user update that supplied a password and was answered 200 wrote a
\* record whose hashedPassword is the keyed hash of that password, the one a
\* login with that password is compared with.
C12_PasswordRehashed ==
    (resp.handler = "users.put" /\ resp.res.statusCode = 200
                                /\ stringOrFalse(resp.in.password) # "")
        => /\ Has(resp.loc, "hashedPassword")
           /\ resp.loc.hashedPassword = hash(stringOrFalse(resp.in.password))

\* C13: a user GET answered 200 returns the stored record less its
\* hashedPassword; no step of a GET changes a file, and the record on disk
\* still holds the hashedPassword a login is compared with.
C13_GetAnswer ==
    /\ (resp.handler = "users.get" /\ resp.res.statusCode = 200)
          => /\ ~Has(resp.res.payload, "hashedPassword")
             /\ resp.res.payload = Without(User1, "hashedPassword")
    /\ checkIfExists("users", User1.phone)
          => LET stored == parseJsonStrToObject(
                               inodes[dirents[getFileName("users", User1.phone)]])
             IN  /\ stored = User1
                 /\ stored.hashedPassword = hash("pw1")

C13_GetStep ==
    \A p \in Procs :
        (proc'[p] # proc[p] /\ "users.get" \in {proc[p].handler, proc'[p].handler})
            => dirents' = dirents /\ inodes' = inodes

C13_GetHidesHash == []C13_GetAnswer /\ [][C13_GetStep]_vars

\* A GET returned the user without the hashedPassword that is still on disk.
C13_Witness ==
    /\ resp.handler = "users.get" /\ resp.res.statusCode = 200
    /\ resp.res.payload = [firstName |-> "Al", lastName |-> "Lee",
                           phone |-> "5551234567", tosAgreement |-> TRUE,
                           checks |-> << >>]
    /\ checkIfExists("users", User1.phone)
    /\ Has(parseJsonStrToObject(inodes[dirents[getFileName("users", User1.phone)]]),
           "hashedPassword")

\* The last answer is that of a check-create whose five fields are valid and
\* whose token is the stored, unexpired token of the stored user, who has no
\* check yet.
CheckByOwner ==
    /\ resp.handler = "checks.post" /\ CheckFields(resp.in)
    /\ resp.in.token = Token1.id /\ resp.vt < Token1.expires
    /\ Stored(getFileName("users", Token1.phone)) = <<User1>>
    /\ Len(User1.checks) < maxChecks

\* C14: a valid check-create of a user who is below the quota is answered 200
\* with the check, which is on disk under its id and listed in the user's
\* checks.
C14_BelowQuotaCreates ==
    CheckByOwner
        => /\ resp.res.statusCode = 200
           /\ checkIfExists("checks", resp.res.payload.id)
           /\ \E i \in 1..Len(Stored(getFileName("users", Token1.phone))[1].checks) :
                  Stored(getFileName("users", Token1.phone))[1].checks[i]
                      = resp.res.payload.id

\* C15: a check-create with a missing or ill-shaped field is answered, 400
\* with the missing-fields error: it is not left without an answer, it does
\* not end the process, and it makes no file.
C15_MissingFieldsAnswered ==
    /\ \A p \in Procs :
          (proc[p].handler \in {"checks.post", "down"} /\ ~CheckFields(proc[p].in))
              => proc[p].pc \notin {"unanswered", "down"}
    /\ (resp.handler = "checks.post" /\ ~CheckFields(resp.in))
          => /\ resp.res.statusCode = 400
             /\ resp.res.payload = [error |-> "Missing required fields"]
    /\ DOMAIN dirents = {getFileName("users", User1.phone),
                         getFileName("tokens", Token1.id)}

\* No check-create gets past its read of users/undefined.json: no request
\* ever waits for the create of a check or the update of its owner, and the
\* data directory holds the user and the token it started with, no check.
NoCheckStored ==
    /\ \A p \in Procs : proc[p].handler = "checks.post"
                            => proc[p].pc \in {"token", "user", "unanswered"}
    /\ resp.handler = "checks.post" => resp.res.statusCode = 403
    /\ DOMAIN dirents = {getFileName("users", User1.phone),
                         getFileName("tokens", Token1.id)}

\* The request r is for a resource and a method the resource does not take.
Unhandled(r) ==
    /\ r.in.trimmedPath \in {"users", "tokens", "checks"}
    /\ r.in.reqMethod \notin Methods(r.in.trimmedPath)

\* C19: a request for a path outside the router is answered 404; a request
\* for users, tokens or checks with a method the resource does not take is
\* answered 405: it is not left without an answer and does not end the
\* process.
C19_Routing ==
    /\ (resp.handler # "idle" /\ resp.in.trimmedPath \notin router)
          => resp.res.statusCode = 404
    /\ (resp.handler # "idle" /\ Unhandled(resp)) => resp.res.statusCode = 405
    /\ \A p \in Procs : /\ proc[p].handler # "down"
                         /\ Unhandled(proc[p]) => proc[p].pc # "unanswered"

\* C20: every answer whose status is not 2xx has a payload with an error
\* field.
C20_ErrorField ==
    (resp.handler # "idle" /\ resp.res.statusCode \notin 200..299)
        => Has(resp.res.payload, "error")

\* C21: a GET of /ping is answered, with status 200: it is not left without
\* an answer and it does not end the process, whatever the data directory
\* holds.
C21_PingAnswered ==
    /\ \A p \in Procs :
          /\ proc[p].handler # "down"
          /\ (proc[p].handler = "ping" /\ proc[p].in.reqMethod = "get")
                 => proc[p].pc # "unanswered"
    /\ (resp.handler = "ping" /\ resp.in.reqMethod = "get")
          => resp.res.statusCode = 200

\* C22: no error escapes a handler, so no request is left without an answer
\* and the process is never ended by one; and every request dispatched to a
\* handler is answered in the end: once a request occupies a slot, the slot
\* is later free again, which only the answer of the request brings about.
C22_NoEscape == \A p \in Procs : proc[p].pc \notin {"unanswered", "down"}

C22_Answered ==
    \A p \in Procs : (proc[p].handler # "idle") ~> (proc[p].handler = "idle")

C22_EveryRequestAnswered == []C22_NoEscape /\ C22_Answered

UserPath == getFileName("users", User1.phone)

\* C23: a user delete answered 200 has removed the file of its phone, and
\* the step that removes it takes that one entry out of the directory and
\* leaves every other file as it was; no other step of a user delete changes
\* anything.  The token of the deleted user stays on disk as it was issued,
\* and a GET of it is answered 200 with it, before and after the delete.
C23_DeleteAnswer ==
    /\ (resp.handler = "users.delete" /\ resp.res.statusCode = 200)
          => /\ hist.unlinks > 0
             /\ ~checkIfExists("users", trim(resp.in.phone))
    /\ checkIfExists("tokens", Token1.id)
    /\ parseJsonStrToObject(inodes[dirents[TokenPath]]) = Token1
    /\ (resp.handler = "tokens.get" /\ resp.in.id = Token1.id)
          => /\ resp.res.statusCode = 200
             /\ resp.res.payload = Token1

C23_DeleteStep ==
    \A p \in Procs :
        (proc[p].handler = "users.delete" /\ proc'[p] # proc[p])
            => IF Leaves(p, "delete", "unlink") /\ Call(p).path \in DOMAIN dirents
               THEN /\ Call(p).path = getFileName("users", trim(proc[p].in.phone))
                    /\ DOMAIN dirents' = DOMAIN dirents \ {Call(p).path}
                    /\ \A x \in DOMAIN dirents' :
                          inodes'[dirents'[x]] = inodes[dirents[x]]
               ELSE dirents' = dirents /\ inodes' = inodes

C23_DeleteKeepsTokens == []C23_DeleteAnswer /\ [][C23_DeleteStep]_vars

\* The user was deleted by a request that has been answered, and afterwards a
\* GET of the user's token returned the token.
C23_Witness ==
    /\ resp.handler = "tokens.get" /\ resp.res.statusCode = 200
    /\ resp.res.payload = Token1 /\ Token1.phone = User1.phone
    /\ ~checkIfExists("users", User1.phone)
    /\ hist.unlinks = 1
    /\ started = 2 /\ \A p \in Procs : proc[p] = Idle

\* Requests a and b of one handler have both had their update of one file
\* resolved.
BothUpdated(a, b, handler) ==
    /\ a # b
    /\ Resumes(a, handler, "update") /\ Resumes(b, handler, "update")
    /\ Resolved(a) /\ Resolved(b)
    /\ Call(a).path = Call(b).path

\* C24: when two updates of one user that ran at once have both completed,
\* the file of the user holds a complete record, the one that one of the two
\* wrote.
C24_LastWriterWins ==
    \A a, b \in Procs :
        BothUpdated(a, b, "users.put")
            => /\ JSON_parses(inodes[dirents[Call(a).path]])
               /\ parseJsonStrToObject(inodes[dirents[Call(a).path]])
                      \in {proc[a].loc, proc[b].loc}

\* The same of two extensions of one token.
ExtendLastWriterWins ==
    \A a, b \in Procs :
        BothUpdated(a, b, "tokens.put")
            => /\ JSON_parses(inodes[dirents[Call(a).path]])
               /\ parseJsonStrToObject(inodes[dirents[Call(a).path]])
                      \in {proc[a].loc, proc[b].loc}

\* No update of the file of `path` has it open.
AtRest(path) ==
    /\ path \in DOMAIN dirents
    /\ \A u \in Procs : Call(u).fd # dirents[path]

\* C25: the stored token keeps the id and the phone it was issued with: when
\* no update has its file open, the file holds a record with that id and
\* phone; while the token has not been deleted a GET of it is answered 200,
\* expired or not.  The file of the token leaves the directory only by the
\* unlink of a token delete, its contents change only by the steps of the
\* update of an extend, and a tick of the clock changes no file.
C25_TokenKept ==
    /\ AtRest(TokenPath)
          => LET tokenData == parseJsonStrToObject(inodes[dirents[TokenPath]])
             IN  /\ Has(tokenData, "id") /\ tokenData.id = Token1.id
                 /\ Has(tokenData, "phone") /\ tokenData.phone = Token1.phone
                 /\ Has(tokenData, "expires")
    /\ (resp.handler = "tokens.get" /\ resp.in.id = Token1.id /\ hist.unlinks = 0)
          => resp.res.statusCode = 200

C25_TokenStep ==
    /\ (TokenPath \in DOMAIN dirents /\ TokenPath \notin DOMAIN dirents')
          => \E p \in Procs : /\ proc[p].handler = "tokens.delete"
                               /\ Leaves(p, "delete", "unlink")
    /\ (TokenPath \in DOMAIN dirents /\ TokenPath \in DOMAIN dirents'
           /\ inodes'[dirents'[TokenPath]] # inodes[dirents[TokenPath]])
          => \E p \in Procs : /\ proc[p].handler = "tokens.put"
                               /\ proc[p].pc = "update"
                               /\ proc'[p].call.stage # proc[p].call.stage
    /\ now' # now => (dirents' = dirents /\ inodes' = inodes)

C25_TokenLifecycle == []C25_TokenKept /\ [][C25_TokenStep]_vars

\* The fields of the stored user that update r supplies.
Supplied(r) ==
    (IF stringOrFalse(r.in.firstName) # "" THEN {"firstName"} ELSE {})
        \cup (IF stringOrFalse(r.in.lastName) # "" THEN {"lastName"} ELSE {})
        \cup (IF stringOrFalse(r.in.password) # "" THEN {"hashedPassword"} ELSE {})

\* C26: user updates leave the phone, the tosAgreement and the checks of the
\* stored user as they were: when no update has the file open it holds a
\* record with the phone, tosAgreement and checks of the signup.  The record
\* an update writes back is the one it read but for the fields it supplies.
\* An update with a phone and none of the three fields is answered 400 with
\* the no-fields error without having looked anything up.
C26_Frame ==
    /\ AtRest(UserPath)
          => LET userData == parseJsonStrToObject(inodes[dirents[UserPath]])
             IN  /\ Has(userData, "phone") /\ userData.phone = User1.phone
                 /\ Has(userData, "tosAgreement")
                 /\ userData.tosAgreement = User1.tosAgreement
                 /\ Has(userData, "checks") /\ userData.checks = User1.checks
    /\ (resp.handler = "users.put" /\ validators_phone(resp.in.phone)
                                    /\ Supplied(resp) = {})
          => /\ resp.res.statusCode = 400
             /\ resp.res.payload = [error |-> "Missing fields to update"]
             /\ resp.vt = 0

C26_Step ==
    \A p \in Procs :
        (Resumes(p, "users.put", "read") /\ Resolved(p) /\ proc'[p] # proc[p])
            => /\ proc'[p].call.fn = "update"
               /\ DOMAIN proc'[p].call.data = DOMAIN Call(p).out \cup Supplied(proc[p])
               /\ \A k \in DOMAIN Call(p).out \ Supplied(proc[p]) :
                      proc'[p].call.data[k] = Call(p).out[k]

C26_UpdateChangesSupplied == []C26_Frame /\ [][C26_Step]_vars

\* The write-back of a user update or of a token extend.
WritesBack(p) == proc[p].handler \in {"users.put", "tokens.put"} /\ proc[p].pc = "update"

\* C27: no step ever adds a file to the directory, so a record that a delete
\* removed is not made again.  A write-back that opens its file after the
\* delete removed it is rejected, and the request is then answered 500 with
\* an error, the file still absent.
C27_NoRecreateStep ==
    /\ DOMAIN dirents' \subseteq DOMAIN dirents
    /\ \A p \in Procs :
          (WritesBack(p) /\ Leaves(p, "update", "open")
                         /\ Call(p).path \notin DOMAIN dirents)
              => /\ proc'[p].call.stage = "rejected"
                 /\ dirents' = dirents
                 /\ inodes' = inodes
    /\ \A p \in Procs :
          (WritesBack(p) /\ Settled(Call(p)) /\ ~proc[p].pre[1].exists
                         /\ proc'[p] # proc[p])
              => /\ resp'.res.statusCode = 500
                 /\ Has(resp'.res.payload, "error")
                 /\ Call(p).path \notin DOMAIN dirents'

C27_LostToDelete ==
    \A p \in Procs :
        (WritesBack(p) /\ Settled(Call(p)) /\ ~proc[p].pre[1].exists)
            => /\ Call(p).stage = "rejected"
               /\ proc[p].pre[1].unlinks > 0
               /\ Call(p).path \notin DOMAIN dirents

C27_DeleteWins == []C27_LostToDelete /\ [][C27_NoRecreateStep]_vars

\* An extend read the token, a delete then removed it, and the extend was
\* answered 500: the token is absent.
C27_Witness ==
    /\ resp.handler = "tokens.put" /\ resp.tok = Token1
    /\ resp.res.statusCode = 500
    /\ resp.res.payload = [error |-> "Could not update the token's expiration"]
    /\ hist.unlinks = 1
    /\ ~checkIfExists("tokens", Token1.id)

(***************************************************************************)
(* Properties of the store.                                                *)
(***************************************************************************)
Creates(p) == Call(p).fn = "create" /\ proc[p].pre # << >>

\* The open of create p made the file (it did not find one).
Won(p) == Creates(p) /\ ~proc[p].pre[1].exists

\* C5: of the create calls for one path that open with no delete completing
\* between their opens, at most one succeeds, and once any of them has opened
\* (and no delete has completed since) the path exists, so one did succeed;
\* a create that opens on a path that exists is rejected and changes no file.
C5_AtMostOneWins ==
    \A a, b \in Procs :
        (a # b /\ Won(a) /\ Won(b) /\ Call(a).path = Call(b).path)
            => proc[a].pre[1].unlinks # proc[b].pre[1].unlinks

C5_SomeoneWon ==
    \A a \in Procs :
        (Creates(a) /\ proc[a].pre[1].unlinks = hist.unlinks)
            => Call(a).path \in DOMAIN dirents

C5_RejectsOnExisting ==
    \A p \in Procs :
        (Leaves(p, "create", "open") /\ Call(p).path \in DOMAIN dirents)
            => /\ proc'[p].call.stage = "rejected"
               /\ dirents' = dirents
               /\ inodes' = inodes

C5_ExclusiveCreate ==
    [](C5_AtMostOneWins /\ C5_SomeoneWon) /\ [][C5_RejectsOnExisting]_vars

\* Two creates of one path have both settled, one resolved and one rejected.
C5_Witness ==
    \E a, b \in Procs :
        /\ a # b
        /\ Call(a).fn = "create" /\ Call(b).fn = "create"
        /\ Call(a).path = Call(b).path
        /\ Call(a).stage = "resolved" /\ Call(b).stage = "rejected"
        /\ proc[a].pre[1].unlinks = proc[b].pre[1].unlinks
        /\ proc[b].pre[1].stored = << >>

\* C6: an update that opens a path that does not exist is rejected, and the
\* step creates nothing: the directory and the files are as before.
C6_NoUpsertStep ==
    \A p \in Procs :
        (Leaves(p, "update", "open") /\ Call(p).path \notin DOMAIN dirents)
            => /\ proc'[p].call.stage = "rejected"
               /\ dirents' = dirents
               /\ inodes' = inodes

C6_NoUpsert == [][C6_NoUpsertStep]_vars

\* An update was rejected on a path that is absent.
C6_Witness ==
    \E p \in Procs :
        /\ Call(p).fn = "update" /\ Call(p).stage = "rejected"
        /\ ~proc[p].pre[1].exists
        /\ Call(p).path \notin DOMAIN dirents

\* An update of the file of `path` is in progress, and it opened a file that
\* held a complete record.
UpdateInProgress(path) ==
    \E u \in Procs :
        /\ Call(u).fn = "update" /\ Call(u).fd # 0
        /\ path \in DOMAIN dirents /\ Call(u).fd = dirents[path]
        /\ proc[u].pre[1].whole

\* C7: a read of a path whose file is being updated (the update found a
\* complete record) resolves to a complete record, never to the {} the
\* parser makes of an empty or partly written file.
C7_ReadStep ==
    \A p \in Procs :
        (Leaves(p, "read", "readFile") /\ UpdateInProgress(Call(p).path))
            => /\ proc'[p].call.stage = "resolved"
               /\ proc'[p].call.out # EmptyObj

C7_ReadSeesWholeRecord == [][C7_ReadStep]_vars

\* C8: used by one caller at a time the store is a map from keys to records:
\* create succeeds exactly on an absent key, read, update and delete exactly
\* on a present one, read returns the record last stored, and between calls
\* a key exists exactly when a record is stored under it.
AsMap(p) ==
    LET c == Call(p)
        before == proc[p].pre[1].stored
    IN  CASE c.fn = "create" -> (c.stage = "resolved") <=> (before = << >>)
          [] c.fn = "read" -> /\ (c.stage = "resolved") <=> (before # << >>)
                              /\ c.stage = "resolved" => c.out = before[1]
          [] c.fn = "update" -> (c.stage = "resolved") <=> (before # << >>)
          [] c.fn = "delete" -> (c.stage = "resolved") <=> (before # << >>)

C8_RoundTrip ==
    /\ \A p \in Procs : (proc[p].handler = "store" /\ Settled(Call(p))) => AsMap(p)
    /\ Quiet => \A k \in StoreKeys :
                    /\ checkIfExists("users", k) <=> Stored(getFileName("users", k)) # << >>
                    /\ checkIfExists("users", k) =>
                           <<parseJsonStrToObject(inodes[dirents[getFileName("users", k)]])>>
                               = Stored(getFileName("users", k))

\* A read returned an updated record, and a read after a delete was rejected.
C8_Witness ==
    \E a, b \in Procs :
        /\ a # b
        /\ Call(a).fn = "read" /\ Call(a).stage = "resolved"
        /\ Call(a).out = [firstName |-> "Bobby", lastName |-> "Lee", phone |-> "5551234567"]
        /\ Call(b).fn = "delete" /\ Call(b).stage = "rejected"
        /\ hist.unlinks > 0

=============================================================================
